---- MODULE Spec2Model ----
(***************************************************************************)
(* The tag-cache-and-clustering pipeline of app_classifier (src/main.py):  *)
(* main() with extract_apps_from_db, load_cache, save_cache, setup_gemini, *)
(* get_app_description, get_embedding and the DBSCAN grouping.             *)
(*                                                                         *)
(* Text is a sequence of one-character strings.  A Python dict is a        *)
(* sequence of <<key, value>> pairs with distinct keys, in insertion       *)
(* order.  The cache file is its content as json sees it.                  *)
(***************************************************************************)
EXTENDS Integers, Sequences, FiniteSets, TLC

\* ------------------------------------------------------------------ bounds

\* Rows of the favorites table.
MaxRows == 3

\* Bound: the longest list of vectors DBSCAN is called with on its own.
MaxPoints == 3

\* Bound: the longest intent descriptor extract_apps_from_db is called with
\* on its own, in tokens.
MaxIntent == 3

\* ------------------------------------------------------------- text values

\* The tag "信息不足" (insufficient information), src/main.py:183,187,258.
Sentinel == <<"N", "A">>

Whitespace == {" "}

RECURSIVE lstrip(_)
lstrip(s) == IF s # <<>> /\ Head(s) \in Whitespace THEN lstrip(Tail(s)) ELSE s

RECURSIVE rstrip(_)
rstrip(s) ==
    IF s # <<>> /\ s[Len(s)] \in Whitespace
    THEN rstrip(SubSeq(s, 1, Len(s) - 1))
    ELSE s

\* str.strip()
strip(s) == rstrip(lstrip(s))

\* ------------------------------------------------------------ Python dicts

DictKeys(d) == {d[n][1] : n \in 1..Len(d)}

\* key in d
DictHas(d, k) == k \in DictKeys(d)

\* d[key], for a key of d
DictGet(d, k) == d[CHOOSE n \in 1..Len(d) : d[n][1] = k][2]

\* Mutant of DictSet: the dict is replaced by one that has the new key only.
DictSet_fresh(d, k, v) == <<<<k, v>>>>

\* d[key] = value: an existing key keeps its place, a new key is appended
DictSet(d, k, v) ==
    IF DictHas(d, k)
    THEN [n \in 1..Len(d) |-> IF d[n][1] = k THEN <<k, v>> ELSE d[n]]
    ELSE Append(d, <<k, v>>)

\* The dict as a set of (key, value) entries: what == compares.
DictItems(d) == {<<d[n][1], d[n][2]>> : n \in 1..Len(d)}

\* ---------------------------------------------------------- the cache file

\* Contents of app_tags_cache.json:
\*   absent      no such file
\*   unreadable  the file exists and open() raises OSError
\*   empty       zero bytes
\*   object      a JSON object; items are its members as written (a
\*               hand-edited file may repeat a key)
\*   array       a JSON array of strings; items are <<element, <<>>>>
\*   number      a JSON number
\*   partial     a proper prefix of a JSON text (a cut-off write)
\*   garbage     text that is no JSON
\*   badutf8     bytes that are no UTF-8
FileKinds ==
    {"absent", "unreadable", "empty", "object", "array", "number", "partial",
     "garbage", "badutf8"}

File(kind, items) == [kind |-> kind, items |-> items]

\* Mutant of json_dump: only the newest member is written.
json_dump_newest(cache_data) ==
    [kind |-> "object",
     items |-> IF cache_data = <<>> THEN <<>>
               ELSE <<cache_data[Len(cache_data)]>>]

\* json.dump(cache_data, f, indent=4, ensure_ascii=False): the members in
\* insertion order.
json_dump(cache_data) == File("object", cache_data)

\* The file after text is written at its start (lines 93-94: the file is
\* emptied at open() and the text is written when it is closed). If another
\* process wrote after the open(), what it wrote beyond the end of text
\* stays behind it.
overwrite(f, text) ==
    IF f.kind \in {"empty", "partial"} THEN {text}
    ELSE {text, File("garbage", <<>>)}

\* json.loads of an object: a repeated key keeps its first place and takes
\* its last value.
RECURSIVE json_object(_, _)
json_object(items, d) ==
    IF items = <<>> THEN d
    ELSE json_object(Tail(items), DictSet(d, Head(items)[1], Head(items)[2]))

\* What load_cache() does with the file: the value it returns ("dict",
\* "list" or "number"), or the exception that leaves it ("raise"), and
\* whether it printed the warning.
Loaded(kind, items, warned) == [kind |-> kind, items |-> items, warned |-> warned]

load_cache(f) ==
    CASE f.kind = "absent"     -> Loaded("dict", <<>>, FALSE)
      [] f.kind = "unreadable" -> Loaded("dict", <<>>, TRUE)
      [] f.kind = "empty"      -> Loaded("dict", <<>>, FALSE)
      [] f.kind = "object"     -> Loaded("dict", json_object(f.items, <<>>), FALSE)
      [] f.kind = "array"      -> Loaded("list", f.items, FALSE)
      [] f.kind = "number"     -> Loaded("number", <<>>, FALSE)
      [] f.kind = "partial"    -> Loaded("dict", <<>>, TRUE)
      [] f.kind = "garbage"    -> Loaded("dict", <<>>, TRUE)
      [] f.kind = "badutf8"    -> Loaded("raise", <<>>, FALSE)

\* ------------------------------------------------- extract_apps_from_db

\* One token for the literal "component=" of an intent descriptor; every
\* other token is one character.
Component == "C"

\* A row of SELECT title, intent FROM favorites; is_null: intent is NULL.
Row(title, intent, is_null) ==
    [title |-> title, intent |-> intent, is_null |-> is_null]

\* pattern = re.compile(r'component=([^/]+)/') matches at position n.
MatchesAt(s, n) ==
    /\ s[n] = Component
    /\ n + 1 <= Len(s)
    /\ s[n + 1] # "/"
    /\ \E m \in (n + 2)..Len(s) : s[m] = "/"

\* Mutant of search: pattern.match, which looks at the start only.
search_at_start(s) == MatchesAt(s, 1)

\* pattern.search(s) finds a match.
search(s) == \E n \in 1..Len(s) : MatchesAt(s, n)

\* match.group(1) of the leftmost match: up to the next "/".
group1(s) ==
    LET n == CHOOSE k \in 1..Len(s) :
                 MatchesAt(s, k) /\ \A l \in 1..(k - 1) : ~MatchesAt(s, l)
        m == CHOOSE k \in (n + 2)..Len(s) :
                 s[k] = "/" /\ \A l \in (n + 2)..(k - 1) : s[l] # "/"
    IN  SubSeq(s, n + 1, m - 1)

\* The loop over rows, lines 44-57.
RECURSIVE extract_rows(_)
extract_rows(rows) ==
    IF rows = <<>> THEN <<>>
    ELSE LET row == Head(rows)
             rest == extract_rows(Tail(rows))
         IN  IF row.is_null \/ row.intent = <<>>
                \/ \A n \in 1..Len(row.intent) : row.intent[n] # Component
             THEN rest
             ELSE IF search(row.intent)
                  THEN <<[name |-> row.title, package |-> group1(row.intent)]>>
                       \o rest
                  ELSE rest

\* ------------------------------------------------------ get_app_description

\* What client.models.generate_content does: it raises, or returns a
\* response whose text is None (has_text = FALSE) or a string.
Response(raises, has_text, text) ==
    [raises |-> raises, has_text |-> has_text, text |-> text]

\* Mutant of get_app_description: the test of the empty answer is missing.
get_app_description_no_empty_test(response) ==
    IF response.raises \/ ~response.has_text THEN Sentinel
    ELSE strip(response.text)

get_app_description(response) ==
    IF response.raises \/ ~response.has_text THEN Sentinel
    ELSE IF strip(response.text) = <<>> THEN Sentinel
         ELSE strip(response.text)

\* ------------------------------------------------------------ get_embedding

\* What client.models.embed_content does: it raises, or returns a result
\* whose 'embedding' is a list of numbers.
Embedding(raises, vector) == [raises |-> raises, vector |-> vector]

\* The vector, or None: has_vector = FALSE.
get_embedding(result) ==
    IF result.raises
    THEN [has_vector |-> FALSE, vector |-> <<>>]
    ELSE [has_vector |-> TRUE, vector |-> result.vector]

\* if vector:  (None and the empty list are false)
Truthy(v) == v.has_vector /\ v.vector # <<>>

\* ------------------------------------------------------------------- DBSCAN

\* DBSCAN(eps=0.4, min_samples=2, metric='cosine'): eps = eps_num / eps_den.
eps_num == 4
eps_den == 10
min_samples == 2

dot(a, b) == a[1] * b[1] + a[2] * b[2]

\* 1 - cos(a, b) <= eps, for non-zero integer vectors, without division.
WithinEps(a, b) ==
    LET t == eps_den - eps_num
    IN  /\ dot(a, b) >= 0
        /\ eps_den * eps_den * dot(a, b) * dot(a, b)
             >= t * t * dot(a, a) * dot(b, b)

\* The eps-neighbourhood of point n, itself included.
Neighbors(X, n) == {m \in 1..Len(X) : WithinEps(X[n], X[m])}

\* Mutant of IsCore: min_samples=1, a point alone is a core point.
IsCore_alone(X, n) == Cardinality(Neighbors(X, n)) >= 1

\* Mutant of IsCore: the point itself is not counted among its neighbours.
IsCore_without_self(X, n) ==
    Cardinality(Neighbors(X, n) \ {n}) >= min_samples

IsCore(X, n) == Cardinality(Neighbors(X, n)) >= min_samples

\* The unlabelled points reached from the points of S through core points.
RECURSIVE Reach(_, _, _)
Reach(X, labels, S) ==
    LET more == S \cup {m \in 1..Len(X) :
                    labels[m] = -1
                    /\ \E k \in S : IsCore(X, k) /\ m \in Neighbors(X, k)}
    IN  IF more = S THEN S ELSE Reach(X, labels, more)

\* Points in index order; an unlabelled core point starts the next cluster.
RECURSIVE dbscan_inner(_, _, _, _)
dbscan_inner(X, labels, n, label_num) ==
    IF n > Len(X) THEN labels
    ELSE IF labels[n] # -1 \/ ~IsCore(X, n)
         THEN dbscan_inner(X, labels, n + 1, label_num)
         ELSE LET C == Reach(X, labels, {n})
              IN  dbscan_inner(X,
                      [m \in 1..Len(X) |->
                          IF m \in C THEN label_num ELSE labels[m]],
                      n + 1, label_num + 1)

fit_predict(X) == dbscan_inner(X, [m \in 1..Len(X) |-> -1], 1, 0)

\* dbscan.fit_predict(np.array(app_vectors)): the estimator validates its
\* input first and raises ValueError on an array without a sample
\* (np.array([]) has one dimension and no row).
dbscan(X) ==
    IF X = <<>> THEN [raises |-> TRUE, labels |-> <<>>]
    ELSE [raises |-> FALSE, labels |-> fit_predict(X)]

\* ------------------------------------------------------------- final_groups

Digit(n) == <<"0", "1", "2", "3", "4", "5", "6", "7", "8", "9">>[n + 1]

\* str(n) for n >= 0
RECURSIVE str(_)
str(n) == IF n < 10 THEN <<Digit(n)>> ELSE str(n \div 10) \o <<Digit(n % 10)>>

\* "独立应用/离群点"
OutlierGroup == <<"o", "u", "t">>

\* f"分组 {cluster_id}"
NumberedGroup(cluster_id) == <<"g", " ">> \o str(cluster_id)

group_name(cluster_id) ==
    IF cluster_id = -1 THEN OutlierGroup ELSE NumberedGroup(cluster_id)

\* Mutant of build_groups: the list of the group starts anew at each name.
RECURSIVE build_groups_overwrite(_, _, _, _)
build_groups_overwrite(apps, labels, n, groups) ==
    IF n > Len(apps) THEN groups
    ELSE build_groups_overwrite(apps, labels, n + 1,
             DictSet(groups, group_name(labels[n]), <<apps[n].name>>))

\* Lines 289-301: the names of processed_apps[n..] appended to their groups.
RECURSIVE build_groups(_, _, _, _)
build_groups(apps, labels, n, groups) ==
    IF n > Len(apps) THEN groups
    ELSE LET g == group_name(labels[n])
             old == IF DictHas(groups, g) THEN DictGet(groups, g) ELSE <<>>
         IN  build_groups(apps, labels, n + 1,
                          DictSet(groups, g, Append(old, apps[n].name)))

\* -------------------------------------------------------------------- state

VARIABLES
    api_key,          \* GOOGLE_API_KEY is set (after load_dotenv)
    db,               \* launcher4x7.db: exists, query_ok, rows
    cache_file,       \* the content of CACHE_FILE
    pc,               \* where main() stands
    apps_to_process,  \* main's locals
    app_idx,          \* the 1-based position of `app` in apps_to_process
    app_tags_cache,   \* [kind: "dict", "list" or "number", items]
    tags,
    processed_apps,
    app_vectors,
    clusters,
    final_groups,
    printed,          \* the kinds of message printed so far
    exit_status,      \* -1 while running; the process's exit status
    error,            \* the exception that left main() uncaught, or "none"
    file_at_start,    \* history: the cache file when the run started
    classified,       \* history: the packages get_app_description was called for
    embedded,         \* history: the positions get_embedding was called for
    got_tags,         \* history: the tag each application got at lines 244-254
    written,          \* history: the entries whose own save_cache succeeded
    last_saved,       \* history: [any, items]: the dict of the last successful save
    save_failed,      \* history: the packages whose own save_cache failed
    dbscan_calls,     \* history: calls of fit_predict
    embed_log,        \* history: [pos, text, answer] of each get_embedding call
    called,           \* history: which of sqlite3.connect, load_cache ran
    unit,             \* a function called on its own: [fn, arg, ret, state]
    other             \* a second run of main() in the same directory:
                      \* [pc, apps, idx, cache, written]

vars ==
    <<api_key, db, cache_file, pc, apps_to_process, app_idx, app_tags_cache,
      tags, processed_apps, app_vectors, clusters, final_groups, printed,
      exit_status, error, file_at_start, classified, embedded, got_tags,
      written, last_saved, save_failed, dbscan_calls, embed_log, called,
      unit, other>>

\* What no step of main() changes.
env == <<api_key, db, file_at_start, unit, other>>
locals == <<apps_to_process, app_idx, app_tags_cache, tags>>
survivors == <<processed_apps, app_vectors>>
result == <<clusters, final_groups, dbscan_calls>>
cache_history == <<written, last_saved, save_failed>>
calls == <<classified, embedded, got_tags, embed_log>>

\* ------------------------------------------------------------------- inputs

PackageA == <<"a">>
PackageB == <<"b">>

\* The rows the table is filled from.
RowPool ==
    << Row("A", <<"x", Component, "a", "/", "y">>, FALSE),
       Row("B", <<Component, "b", "/">>, FALSE),
       Row("C", <<Component, "/", Component, "a", "/">>, FALSE),
       Row("D", <<"x", "/">>, FALSE),
       Row("E", <<>>, TRUE),
       Row("F", <<Component, "b">>, FALSE) >>

\* Tables: up to MaxRows consecutive rows of the pool, from any start.
Tables ==
    {SubSeq(RowPool \o RowPool, from, from + len - 1) :
        from \in 1..Len(RowPool), len \in 0..MaxRows}

Databases ==
    {[exists |-> FALSE, query_ok |-> TRUE, rows |-> <<>>],
     [exists |-> TRUE, query_ok |-> FALSE, rows |-> <<>>]}
    \cup {[exists |-> TRUE, query_ok |-> TRUE, rows |-> t] : t \in Tables}

TagA == <<"t">>
TagB == <<"u", "v">>

\* Cache files a run can find.
StartFiles ==
    {File(k, <<>>) : k \in FileKinds}
    \cup {File("object", <<<<PackageA, TagA>>>>),
          File("object", <<<<PackageA, Sentinel>>, <<PackageB, TagB>>>>),
          File("object", <<<<PackageB, TagA>>, <<PackageB, TagB>>>>),
          File("array", <<<<PackageA, <<>>>>>>)}

\* What the classification service answers.
Responses ==
    {Response(TRUE, FALSE, <<>>),
     Response(FALSE, FALSE, <<>>),
     Response(FALSE, TRUE, <<>>),
     Response(FALSE, TRUE, <<" ">>),
     Response(FALSE, TRUE, <<" ", "t">>),
     Response(FALSE, TRUE, <<"u", "v", " ">>),
     Response(FALSE, TRUE, <<"N", "A", " ">>)}

\* Embedding vectors: (1,0) and (0,1) are far apart, (1,1) is near both,
\* (-1,0) is far from all.
Vectors == {<<1, 0>>, <<1, 1>>, <<0, 1>>, <<-1, 0>>}

Embeddings ==
    {Embedding(TRUE, <<>>), Embedding(FALSE, <<>>)}
    \cup {Embedding(FALSE, v) : v \in Vectors}

\* --------------------------------------------------------------------- Init

NoSave == [any |-> FALSE, items |-> <<>>]

\* There is no second run.
NoOther ==
    [pc |-> "off", apps |-> <<>>, idx |-> 0,
     cache |-> [kind |-> "dict", items |-> <<>>], written |-> {}]

\* No function is called on its own.
NoUnit == [fn |-> "none", arg |-> <<>>, ret |-> <<>>, state |-> "none"]

Init ==
    /\ api_key \in BOOLEAN
    /\ db \in Databases
    /\ cache_file \in StartFiles
    /\ file_at_start = cache_file
    /\ pc = "setup"
    /\ apps_to_process = <<>>
    /\ app_idx = 0
    /\ app_tags_cache = [kind |-> "dict", items |-> <<>>]
    /\ tags = <<>>
    /\ processed_apps = <<>>
    /\ app_vectors = <<>>
    /\ clusters = <<>>
    /\ final_groups = <<>>
    /\ printed = {}
    /\ exit_status = -1
    /\ error = "none"
    /\ classified = <<>>
    /\ embedded = <<>>
    /\ got_tags = <<>>
    /\ written = {}
    /\ last_saved = NoSave
    /\ save_failed = {}
    /\ dbscan_calls = 0
    /\ embed_log = <<>>
    /\ called = {}
    /\ unit = NoUnit
    /\ other = NoOther

\* ------------------------------------------------------------------ actions

Say(msg) == printed' = printed \cup {msg}

\* return from main(): the interpreter exits with status 0.
Return ==
    /\ pc' = "exited"
    /\ exit_status' = 0
    /\ error' = "none"

\* An exception nothing catches: traceback, exit status 1.
Raise(exc) ==
    /\ pc' = "raised"
    /\ exit_status' = 1
    /\ error' = exc
    /\ Say("traceback")

\* Mutant of Setup: the return after the ValueError is missing.
Setup_no_return ==
    /\ pc = "setup"
    /\ Say(IF api_key THEN "gemini_configured" ELSE "no_api_key")
    /\ pc' = "extract"
    /\ UNCHANGED <<exit_status, error>>
    /\ UNCHANGED <<env, called, cache_file, locals, survivors, result, calls,
                   cache_history>>

\* Lines 208-212: setup_gemini() and its ValueError.
Setup ==
    /\ pc = "setup"
    /\ IF api_key
       THEN /\ Say("gemini_configured")
            /\ pc' = "extract"
            /\ UNCHANGED <<exit_status, error>>
       ELSE /\ Say("no_api_key")
            /\ Return
    /\ UNCHANGED <<env, called, cache_file, locals, survivors, result, calls,
                   cache_history>>

\* Lines 215-227: extract_apps_from_db and the empty list.
Extract ==
    /\ pc = "extract"
    /\ IF ~db.exists
       THEN /\ Say("db_missing")
            /\ Return
            /\ UNCHANGED <<apps_to_process, called>>
       ELSE IF ~db.query_ok
       THEN /\ Say("db_error")
            /\ Return
            /\ called' = called \cup {"sqlite3.connect"}
            /\ UNCHANGED apps_to_process
       ELSE /\ apps_to_process' = extract_rows(db.rows)
            /\ called' = called \cup {"sqlite3.connect"}
            /\ IF apps_to_process' = <<>>
               THEN /\ printed' = printed \cup {"extracted", "no_apps"}
                    /\ Return
               ELSE /\ Say("extracted")
                    /\ pc' = "load"
                    /\ UNCHANGED <<exit_status, error>>
    /\ UNCHANGED <<env, cache_file, app_idx, app_tags_cache, tags, survivors,
                   result, calls, cache_history>>

\* Lines 232-235: load_cache().
LoadCache ==
    /\ pc = "load"
    /\ called' = called \cup {"load_cache"}
    /\ LET r == load_cache(cache_file)
       IN  IF r.kind = "raise"
           THEN /\ Raise("UnicodeDecodeError")
                /\ UNCHANGED <<app_tags_cache, app_idx>>
           ELSE /\ app_tags_cache' = [kind |-> r.kind, items |-> r.items]
                /\ printed' = IF r.warned THEN printed \cup {"cache_warning"}
                              ELSE printed
                /\ app_idx' = 1
                /\ pc' = "lookup"
                /\ UNCHANGED <<exit_status, error>>
    /\ UNCHANGED <<env, cache_file, apps_to_process, tags, survivors, result,
                   calls, cache_history>>

app == apps_to_process[app_idx]

InLoop == pc = "lookup" /\ app_idx <= Len(apps_to_process)

\* Mutant of InCache: an entry that holds the sentinel does not count.
InCache_unless_sentinel(package_name) ==
    /\ DictHas(app_tags_cache.items, package_name)
    /\ DictGet(app_tags_cache.items, package_name) # Sentinel

\* Mutant of InCache: the lookup never finds the package.
InCache_never(package_name) == FALSE

\* package_name in app_tags_cache
InCache(package_name) == DictHas(app_tags_cache.items, package_name)

\* Line 244 when load_cache returned a number: `in` raises TypeError.
LookupRaises ==
    /\ InLoop
    /\ app_tags_cache.kind = "number"
    /\ Raise("TypeError")
    /\ UNCHANGED <<env, called, cache_file, locals, survivors, result, calls,
                   cache_history>>

\* Lines 244-247: the cache hit.  A list cannot be indexed by a string.
CacheHit ==
    /\ InLoop
    /\ app_tags_cache.kind # "number"
    /\ InCache(app.package)
    /\ IF app_tags_cache.kind = "dict"
       THEN /\ tags' = DictGet(app_tags_cache.items, app.package)
            /\ got_tags' = Append(got_tags, tags')
            /\ pc' = "check"
            /\ UNCHANGED <<printed, exit_status, error>>
       ELSE /\ Raise("TypeError")
            /\ UNCHANGED <<tags, got_tags>>
    /\ UNCHANGED <<env, called, cache_file, apps_to_process, app_idx, app_tags_cache,
                   survivors, result, classified, embedded, embed_log,
                   cache_history>>

\* Lines 248-252: the cache miss, up to the call of save_cache.
CacheMiss ==
    /\ InLoop
    /\ app_tags_cache.kind # "number"
    /\ ~InCache(app.package)
    /\ \E response \in Responses :
          /\ tags' = get_app_description(response)
          /\ classified' = Append(classified, app.package)
          /\ IF app_tags_cache.kind = "dict"
             THEN /\ app_tags_cache' =
                        [app_tags_cache EXCEPT
                            !.items = DictSet(@, app.package, tags')]
                  /\ printed' = IF response.raises \/ ~response.has_text
                                THEN printed \cup {"llm_error"}
                                ELSE printed
                  /\ got_tags' = Append(got_tags, tags')
                  /\ pc' = "save_open"
                  /\ UNCHANGED <<exit_status, error>>
             ELSE /\ Raise("TypeError")
                  /\ UNCHANGED <<app_tags_cache, got_tags>>
    /\ UNCHANGED <<env, called, cache_file, apps_to_process, app_idx, survivors,
                   result, embedded, embed_log, cache_history>>

\* Mutant of SaveError: the IOError is not caught.
SaveError_propagates ==
    /\ Raise("OSError")
    /\ save_failed' = save_failed \cup {app.package}
    /\ UNCHANGED <<written, last_saved>>

\* save_cache failed: line 97, and back in main at line 256.
SaveError ==
    /\ Say("save_error")
    /\ save_failed' = save_failed \cup {app.package}
    /\ pc' = "check"
    /\ UNCHANGED <<written, last_saved, exit_status, error>>

\* Line 93: open(CACHE_FILE, 'w') truncates the file, or raises IOError.
SaveOpen ==
    /\ pc = "save_open"
    /\ \/ /\ cache_file' = File("empty", <<>>)
          /\ pc' = "save_write"
          /\ UNCHANGED <<printed, cache_history, exit_status, error>>
       \/ /\ SaveError
          /\ UNCHANGED cache_file
    /\ UNCHANGED <<env, called, locals, survivors, result, calls>>

\* Line 94, under way: a part of the text has reached the file.
SaveChunk ==
    /\ pc = "save_write"
    /\ cache_file.kind = "empty"
    /\ app_tags_cache.items # <<>>
    /\ cache_file' = File("partial", <<>>)
    /\ UNCHANGED <<env, called, pc, locals, survivors, result, printed, exit_status,
                   error, calls, cache_history>>

\* Lines 94-97: json.dump and the close of the file finish, or raise IOError
\* with the file as far as it was written.
SaveWrite ==
    /\ pc = "save_write"
    /\ \/ /\ cache_file' \in overwrite(cache_file,
                                        json_dump(app_tags_cache.items))
          /\ Say("cache_saved")
          /\ written' = written \cup {<<app.package, tags>>}
          /\ last_saved' = [any |-> TRUE, items |-> app_tags_cache.items]
          /\ pc' = "check"
          /\ UNCHANGED <<save_failed, exit_status, error>>
       \/ /\ SaveError
          /\ UNCHANGED cache_file
    /\ UNCHANGED <<env, called, locals, survivors, result, calls>>

\* Mutant of Check: the sentinel is not tested.
Check_no_skip ==
    /\ pc = "check"
    /\ pc' = "embed"
    /\ UNCHANGED <<env, called, cache_file, locals, survivors, result, printed,
                   exit_status, error, calls, cache_history>>

\* Lines 256-262: the sentinel skips the application.
Check ==
    /\ pc = "check"
    /\ IF tags = Sentinel
       THEN /\ app_idx' = app_idx + 1
            /\ pc' = "lookup"
       ELSE /\ pc' = "embed"
            /\ UNCHANGED app_idx
    /\ UNCHANGED <<env, called, cache_file, apps_to_process, app_tags_cache, tags,
                   survivors, result, printed, exit_status, error, calls,
                   cache_history>>

\* Mutant of Embed: the application is kept even without a vector.
Embed_keeps_app ==
    /\ pc = "embed"
    /\ \E answer \in Embeddings :
          LET vector == get_embedding(answer)
          IN  /\ embedded' = Append(embedded, app_idx)
              /\ embed_log' = Append(embed_log,
                                     [pos |-> app_idx, text |-> tags,
                                      answer |-> answer])
              /\ printed' = IF answer.raises THEN printed \cup {"embed_error"}
                            ELSE printed
              /\ processed_apps' =
                    Append(processed_apps,
                           [name |-> app.name, package |-> app.package,
                            tags |-> tags, pos |-> app_idx])
              /\ IF Truthy(vector)
                 THEN app_vectors' = Append(app_vectors, vector.vector)
                 ELSE UNCHANGED app_vectors
    /\ app_idx' = app_idx + 1
    /\ pc' = "lookup"
    /\ UNCHANGED <<env, called, cache_file, apps_to_process, app_tags_cache, tags,
                   result, exit_status, error, classified, got_tags,
                   cache_history>>

\* Lines 265-269: get_embedding and the two appends.
Embed ==
    /\ pc = "embed"
    /\ \E answer \in Embeddings :
          LET vector == get_embedding(answer)
          IN  /\ embedded' = Append(embedded, app_idx)
              /\ embed_log' = Append(embed_log,
                                     [pos |-> app_idx, text |-> tags,
                                      answer |-> answer])
              /\ printed' = IF answer.raises THEN printed \cup {"embed_error"}
                            ELSE printed
              /\ IF Truthy(vector)
                 THEN /\ processed_apps' =
                            Append(processed_apps,
                                   [name |-> app.name, package |-> app.package,
                                    tags |-> tags, pos |-> app_idx])
                      /\ app_vectors' = Append(app_vectors, vector.vector)
                 ELSE UNCHANGED survivors
    /\ app_idx' = app_idx + 1
    /\ pc' = "lookup"
    /\ UNCHANGED <<env, called, cache_file, apps_to_process, app_tags_cache, tags,
                   result, exit_status, error, classified, got_tags,
                   cache_history>>

\* Mutant of NothingToCluster: the return is missing.
NothingToCluster_no_return ==
    /\ pc = "lookup"
    /\ app_idx > Len(apps_to_process)
    /\ app_vectors = <<>>
    /\ dbscan_calls' = dbscan_calls + 1
    /\ printed' = printed \cup {"no_vectors", "traceback"}
    /\ pc' = "raised"
    /\ exit_status' = 1
    /\ error' = "ValueError"
    /\ UNCHANGED <<clusters, final_groups>>
    /\ UNCHANGED <<env, called, cache_file, locals, survivors, calls, cache_history>>

\* Lines 271-274: no vector, nothing to cluster.
NothingToCluster ==
    /\ pc = "lookup"
    /\ app_idx > Len(apps_to_process)
    /\ app_vectors = <<>>
    /\ Say("no_vectors")
    /\ Return
    /\ UNCHANGED <<env, called, cache_file, locals, survivors, result, calls,
                   cache_history>>

\* Lines 276-303: DBSCAN, the groups, the printed result.
Cluster ==
    /\ pc = "lookup"
    /\ app_idx > Len(apps_to_process)
    /\ app_vectors # <<>>
    /\ dbscan_calls' = dbscan_calls + 1
    /\ LET fitted == dbscan(app_vectors)
       IN  IF fitted.raises
           THEN /\ Raise("ValueError")
                /\ UNCHANGED <<clusters, final_groups>>
           ELSE /\ clusters' = fitted.labels
                /\ final_groups' =
                      build_groups(processed_apps, clusters', 1, <<>>)
                /\ Say("final_groups")
                /\ Return
    /\ UNCHANGED <<env, called, cache_file, locals, survivors, calls, cache_history>>

Running == pc \notin {"exited", "raised", "killed", "unit"}

\* The process is killed (a crash, a signal, power loss) wherever it stands.
Kill ==
    /\ Running
    /\ pc' = "killed"
    /\ exit_status' = 137
    /\ UNCHANGED <<env, called, cache_file, locals, survivors, result, printed, error,
                   calls, cache_history>>

Next ==
    \/ Setup
    \/ Extract
    \/ LoadCache
    \/ LookupRaises
    \/ CacheHit
    \/ CacheMiss
    \/ SaveOpen
    \/ SaveChunk
    \/ SaveWrite
    \/ Check
    \/ Embed
    \/ NothingToCluster
    \/ Cluster
    \/ Kill

Spec == Init /\ [][Next]_vars

\* ------------------------------------------------- two runs, one directory

\* Everything of the first run but the cache file.
run ==
    <<api_key, db, file_at_start, unit, pc, locals, survivors, result,
      printed, exit_status, error, calls, cache_history, called>>

\* The second run is the same main(); of its steps only those that read or
\* write the cache file are told apart: load_cache, the lookup with its
\* classification, the open and the write of save_cache, the return.

OtherApp == other.apps[other.idx]

\* What the classification service answers the second run.
OtherResponses ==
    {Response(TRUE, FALSE, <<>>), Response(FALSE, TRUE, <<"u", "v", " ">>)}

\* Mutant of OtherLoad: the second run waits for a lock that the first run
\* holds until it ends.
OtherLoad_locked ==
    /\ other.pc = "load"
    /\ pc \in {"exited", "raised", "killed"}
    /\ LET r == load_cache(cache_file)
       IN  other' =
              IF r.kind = "dict"
              THEN [other EXCEPT !.pc = "lookup", !.idx = 1,
                                 !.cache = [kind |-> "dict", items |-> r.items]]
              ELSE [other EXCEPT !.pc = "raised"]
    /\ UNCHANGED <<cache_file, run>>

\* Line 232 of the second run.
OtherLoad ==
    /\ other.pc = "load"
    /\ LET r == load_cache(cache_file)
       IN  other' =
              IF r.kind = "dict"
              THEN [other EXCEPT !.pc = "lookup", !.idx = 1,
                                 !.cache = [kind |-> "dict", items |-> r.items]]
              ELSE [other EXCEPT !.pc = "raised"]
    /\ UNCHANGED <<cache_file, run>>

\* Lines 244-247 of the second run, and the rest of the loop body, which
\* touches no file.
OtherHit ==
    /\ other.pc = "lookup"
    /\ other.idx <= Len(other.apps)
    /\ DictHas(other.cache.items, OtherApp.package)
    /\ other' = [other EXCEPT !.idx = @ + 1]
    /\ UNCHANGED <<cache_file, run>>

\* Lines 248-252 of the second run.
OtherMiss ==
    /\ other.pc = "lookup"
    /\ other.idx <= Len(other.apps)
    /\ ~DictHas(other.cache.items, OtherApp.package)
    /\ \E response \in OtherResponses :
          other' = [other EXCEPT
                       !.cache.items = DictSet(@, OtherApp.package,
                                               get_app_description(response)),
                       !.pc = "save_open"]
    /\ UNCHANGED <<cache_file, run>>

\* Line 93 of the second run.
OtherSaveOpen ==
    /\ other.pc = "save_open"
    /\ \/ /\ cache_file' = File("empty", <<>>)
          /\ other' = [other EXCEPT !.pc = "save_write"]
       \/ /\ other' = [other EXCEPT !.pc = "lookup", !.idx = @ + 1]
          /\ UNCHANGED cache_file
    /\ UNCHANGED run

\* Lines 94-97 of the second run, and the rest of the loop body.
OtherSaveWrite ==
    /\ other.pc = "save_write"
    /\ \/ /\ cache_file' \in overwrite(cache_file,
                                        json_dump(other.cache.items))
          /\ other' = [other EXCEPT
                          !.written = @ \cup
                              {<<OtherApp.package,
                                 DictGet(other.cache.items, OtherApp.package)>>},
                          !.pc = "lookup", !.idx = @ + 1]
       \/ /\ other' = [other EXCEPT !.pc = "lookup", !.idx = @ + 1]
          /\ UNCHANGED cache_file
    /\ UNCHANGED run

\* The second run has been through its list; what follows touches no file.
OtherReturn ==
    /\ other.pc = "lookup"
    /\ other.idx > Len(other.apps)
    /\ other' = [other EXCEPT !.pc = "done"]
    /\ UNCHANGED <<cache_file, run>>

\* The tables the two runs read: the table may change between the runs.
TwoTables ==
    {<<RowPool[1]>>, <<RowPool[2]>>, <<RowPool[1], RowPool[2]>>}

\* Both runs have started; the second has its list and is about to load the
\* cache.
TwoInit ==
    /\ api_key = TRUE
    /\ \E t \in TwoTables :
          db = [exists |-> TRUE, query_ok |-> TRUE, rows |-> t]
    /\ cache_file \in {File("absent", <<>>),
                       File("object", <<<<PackageA, TagA>>>>)}
    /\ file_at_start = cache_file
    /\ pc = "setup"
    /\ apps_to_process = <<>>
    /\ app_idx = 0
    /\ app_tags_cache = [kind |-> "dict", items |-> <<>>]
    /\ tags = <<>>
    /\ processed_apps = <<>>
    /\ app_vectors = <<>>
    /\ clusters = <<>>
    /\ final_groups = <<>>
    /\ printed = {}
    /\ exit_status = -1
    /\ error = "none"
    /\ classified = <<>>
    /\ embedded = <<>>
    /\ got_tags = <<>>
    /\ written = {}
    /\ last_saved = NoSave
    /\ save_failed = {}
    /\ dbscan_calls = 0
    /\ embed_log = <<>>
    /\ called = {}
    /\ unit = NoUnit
    /\ \E t \in TwoTables :
          other = [NoOther EXCEPT !.pc = "load", !.apps = extract_rows(t)]

\* Two runs that are not killed and write the file in one piece.
TwoNext ==
    \/ Setup
    \/ Extract
    \/ LoadCache
    \/ CacheHit
    \/ CacheMiss
    \/ SaveOpen
    \/ SaveWrite
    \/ Check
    \/ Embed
    \/ NothingToCluster
    \/ Cluster
    \/ OtherLoad
    \/ OtherHit
    \/ OtherMiss
    \/ OtherSaveOpen
    \/ OtherSaveWrite
    \/ OtherReturn

SpecTwoRuns == TwoInit /\ [][TwoNext]_vars

\* ------------------------------------------- functions called on their own

\* Texts the classification service can answer with.
UnitTexts ==
    {<<>>, <<" ">>, <<" ", " ">>, <<"t">>, <<" ", "t">>, <<"t", " ">>,
     <<" ", "t", " ">>, <<"t", " ", "u">>, <<"N", "A">>, <<" ", "N", "A">>}

UnitResponses ==
    {Response(TRUE, FALSE, <<>>), Response(FALSE, FALSE, <<>>)}
    \cup {Response(FALSE, TRUE, t) : t \in UnitTexts}

RECURSIVE SeqsUpTo(_, _)
SeqsUpTo(S, n) ==
    IF n = 0 THEN {<<>>}
    ELSE LET shorter == SeqsUpTo(S, n - 1)
         IN  shorter \cup {Append(q, x) : q \in shorter, x \in S}

UnitCall(fn, arg) ==
    [fn |-> fn, arg |-> arg, ret |-> <<>>, state |-> "call"]

\* Rows of a table of at most two rows: every intent of up to MaxIntent
\* tokens out of component=, / and a letter, or NULL.
UnitRows(title) ==
    {Row(title, i, FALSE) : i \in SeqsUpTo({Component, "/", "a"}, MaxIntent)}
    \cup {Row(title, <<>>, TRUE)}

UnitTables ==
    {<<>>} \cup {<<r>> : r \in UnitRows("A")}
    \cup {<<r, q>> : r \in UnitRows("A"), q \in UnitRows("B")}

UnitCalls ==
    {UnitCall("get_app_description", r) : r \in UnitResponses}
    \cup {UnitCall("extract_apps_from_db", t) : t \in UnitTables}
    \cup {UnitCall("fit_predict", X) :
             X \in SeqsUpTo(Vectors, MaxPoints) \ {<<>>}}

\* One function is about to be called with one argument; main() is not run.
UnitInit ==
    /\ api_key = TRUE
    /\ db = [exists |-> FALSE, query_ok |-> TRUE, rows |-> <<>>]
    /\ cache_file = File("missing", <<>>)
    /\ file_at_start = cache_file
    /\ pc = "unit"
    /\ apps_to_process = <<>>
    /\ app_idx = 0
    /\ app_tags_cache = [kind |-> "dict", items |-> <<>>]
    /\ tags = <<>>
    /\ processed_apps = <<>>
    /\ app_vectors = <<>>
    /\ clusters = <<>>
    /\ final_groups = <<>>
    /\ printed = {}
    /\ exit_status = -1
    /\ error = "none"
    /\ classified = <<>>
    /\ embedded = <<>>
    /\ got_tags = <<>>
    /\ written = {}
    /\ last_saved = NoSave
    /\ save_failed = {}
    /\ dbscan_calls = 0
    /\ embed_log = <<>>
    /\ called = {}
    /\ unit \in UnitCalls
    /\ other = NoOther

\* The call returns or raises.
UnitStep ==
    /\ pc = "unit"
    /\ unit.state = "call"
    /\ unit' =
          IF unit.fn = "get_app_description"
          THEN [unit EXCEPT !.ret = get_app_description(unit.arg),
                            !.state = "returned"]
          ELSE IF unit.fn = "extract_apps_from_db"
          THEN [unit EXCEPT !.ret = extract_rows(unit.arg),
                            !.state = "returned"]
          ELSE LET fitted == dbscan(unit.arg)
               IN  IF fitted.raises
                   THEN [unit EXCEPT !.state = "raised"]
                   ELSE [unit EXCEPT !.ret = fitted.labels,
                                     !.state = "returned"]
    /\ UNCHANGED <<api_key, db, cache_file, pc, apps_to_process, app_idx,
                   app_tags_cache, tags, processed_apps, app_vectors,
                   clusters, final_groups, printed, exit_status, error,
                   file_at_start, classified, embedded, got_tags, written,
                   last_saved, save_failed, dbscan_calls, embed_log, called,
                   other>>

\* main() as in Spec, or one function called on its own.
SpecUnits == (Init \/ UnitInit) /\ [][Next \/ UnitStep]_vars

\* ------------------------------------------------------------------- claims

Count(seq, x) == Cardinality({n \in 1..Len(seq) : seq[n] = x})

Range(seq) == {seq[n] : n \in 1..Len(seq)}

\* A step of main() itself: not the kill, not a stutter.
Stepped == pc' # pc /\ pc' # "killed"

\* C1, the order of the loop: the position moves on by one application at a
\* time; a classifier call is one for the application at the position, made
\* at its cache lookup, and the lookup calls the classifier exactly when the
\* package is not in the in-memory cache; the call's result is in the cache
\* when save_cache is entered.
C1_LookupStep ==
    /\ app_idx' \in {app_idx, app_idx + 1}
    /\ classified' # classified =>
          /\ InLoop
          /\ ~DictHas(app_tags_cache.items, app.package)
          /\ classified' = Append(classified, app.package)
          /\ pc' = "save_open" =>
                /\ DictHas(app_tags_cache'.items, app.package)
                /\ DictGet(app_tags_cache'.items, app.package) = tags'
          /\ pc' \in {"save_open", "raised"}
    /\ InLoop /\ Stepped /\ app_tags_cache.kind # "number" =>
          (classified' # classified
              <=> ~DictHas(app_tags_cache.items, app.package))
    /\ InLoop /\ app_tags_cache.kind = "number" => classified' = classified

\* C1, at every cache lookup: each package classified so far is in the
\* in-memory cache and its write to the file has been attempted, and no
\* package has been classified twice.
C1_AtLookup ==
    /\ pc = "lookup" =>
          \A p \in Range(classified) :
              /\ DictHas(app_tags_cache.items, p)
              /\ p \in save_failed \/ \E e \in written : e[1] = p
    /\ \A p \in Range(classified) : Count(classified, p) = 1

\* C1: applications are processed in extraction order, the classifier is
\* called if and only if the package is absent from the in-memory cache, its
\* result is inserted and a write attempted before the next lookup, so a
\* package that appears twice is classified at most once.
C1_WriteThroughBeforeNextLookup == [][C1_LookupStep]_vars /\ []C1_AtLookup

\* C1 witness: the third application repeats the first one's package, which
\* was classified and written at position 1, and is served from the cache.
C1_Witness ==
    /\ pc = "check"
    /\ app_idx = 3
    /\ apps_to_process[1].package = apps_to_process[3].package
    /\ classified = <<apps_to_process[1].package, apps_to_process[2].package>>
    /\ Len(got_tags) = 3
    /\ \E e \in written : e[1] = apps_to_process[1].package

\* C3: a package that is in the tag cache, whatever its value, is never
\* classified (again) in the run; a lookup that finds the sentinel takes it
\* as the tag, and the application is then skipped with no remote call.
C3_Step ==
    /\ \A p \in DictKeys(app_tags_cache.items) :
          Count(classified', p) = Count(classified, p)
    /\ ( /\ InLoop
         /\ Stepped
         /\ app_tags_cache.kind = "dict"
         /\ DictHas(app_tags_cache.items, app.package)
         /\ DictGet(app_tags_cache.items, app.package) = Sentinel )
       => tags' = Sentinel /\ pc' = "check" /\ calls' = <<classified, embedded,
                                                            Append(got_tags, Sentinel),
                                                            embed_log>>
    /\ pc = "check" /\ tags = Sentinel /\ Stepped
       => /\ pc' = "lookup"
          /\ app_idx' = app_idx + 1
          /\ calls' = calls
          /\ survivors' = survivors

C3_CachedTagIsAuthoritative == [][C3_Step]_vars

\* C3 witness: the classifier call for the first application raised, the
\* sentinel was stored, and the third application, of the same package, has
\* been skipped on a cache hit: two classifier calls for three applications.
C3_Witness ==
    /\ pc = "lookup"
    /\ app_idx = 4
    /\ apps_to_process[1].package = apps_to_process[3].package
    /\ got_tags[1] = Sentinel
    /\ got_tags[3] = Sentinel
    /\ got_tags[2] # Sentinel
    /\ "llm_error" \in printed
    /\ Len(classified) = 2
    /\ embedded = <<2>>

\* The positions in apps_to_process of the applications whose tag is the
\* sentinel.
SentinelPositions == {n \in 1..Len(got_tags) : got_tags[n] = Sentinel}

NamesOf(apps) == [n \in 1..Len(apps) |-> apps[n].name]

\* The names in the groups of final_groups, group after group.
RECURSIVE GroupedNames(_)
GroupedNames(groups) ==
    IF groups = <<>> THEN <<>>
    ELSE Head(groups)[2] \o GroupedNames(Tail(groups))

\* C4: an application whose tag is the sentinel is never sent to the embedder
\* and never joins processed_apps, and the groups hold the names of
\* processed_apps and no other.
C4_SentinelNeverEmbedded ==
    /\ \A n \in SentinelPositions :
          /\ n \notin Range(embedded)
          /\ \A m \in 1..Len(processed_apps) : processed_apps[m].pos # n
    /\ \A x \in Range(GroupedNames(final_groups)) :
          Count(GroupedNames(final_groups), x)
             = Count(NamesOf(processed_apps), x)
    /\ Len(GroupedNames(final_groups)) \in {0, Len(processed_apps)}

\* C4 witness: the classifier answered the sentinel for the second of three
\* applications, and the groups are printed with the other two in them.
C4_Witness ==
    /\ pc = "exited"
    /\ "final_groups" \in printed
    /\ Len(apps_to_process) = 3
    /\ classified = <<apps_to_process[1].package, apps_to_process[2].package>>
    /\ SentinelPositions = {2}
    /\ Len(GroupedNames(final_groups)) = 2

\* main() has ended after the loop ran to its end.
LoopDone ==
    pc \in {"exited", "raised"} /\ app_idx = Len(apps_to_process) + 1

\* C5: when the loop ends with no surviving application, main reports that
\* there is nothing to cluster and returns: DBSCAN has not been called and
\* there are no groups.
C5_NothingToCluster ==
    LoopDone /\ processed_apps = <<>> =>
        /\ "no_vectors" \in printed
        /\ "final_groups" \notin printed
        /\ dbscan_calls = 0
        /\ clusters = <<>>
        /\ final_groups = <<>>

\* C5 witness: of two applications one had the sentinel and the other no
\* embedding.
C5_Witness ==
    /\ LoopDone
    /\ Len(apps_to_process) = 2
    /\ processed_apps = <<>>
    /\ Cardinality(SentinelPositions) = 1
    /\ Len(embedded) = 1
    /\ "no_vectors" \in printed

\* Cosine distance below eps, and above eps.
Near(a, b) ==
    /\ dot(a, b) > 0
    /\ 100 * dot(a, b) * dot(a, b) > 36 * dot(a, a) * dot(b, b)

Far(a, b) ==
    \/ dot(a, b) <= 0
    \/ 100 * dot(a, b) * dot(a, b) < 36 * dot(a, a) * dot(b, b)

\* Survivors n and m are near each other and survivor k is far from both.
TwoNearOneFar(n, m, k) ==
    /\ Len(app_vectors) = 3
    /\ {n, m, k} = {1, 2, 3}
    /\ n < m
    /\ Near(app_vectors[n], app_vectors[m])
    /\ Far(app_vectors[k], app_vectors[n])
    /\ Far(app_vectors[k], app_vectors[m])

\* C6: with eps = 0.4 and min_samples = 2, two survivors near each other and
\* a third far from both give one numbered group with the names of the two
\* and the outlier group with the name of the third, and no other group.
C6_TwoNearOneFar ==
    \A n, m, k \in 1..3 :
        LoopDone /\ TwoNearOneFar(n, m, k) =>
            /\ clusters[n] = 0 /\ clusters[m] = 0 /\ clusters[k] = -1
            /\ DictKeys(final_groups) = {NumberedGroup(0), OutlierGroup}
            /\ Len(final_groups) = 2
            /\ DictGet(final_groups, NumberedGroup(0))
                  = <<processed_apps[n].name, processed_apps[m].name>>
            /\ DictGet(final_groups, OutlierGroup) = <<processed_apps[k].name>>

\* C6 witness: the first two survivors have different vectors near each
\* other, the third is far from both, and the groups are printed.
C6_Witness ==
    /\ LoopDone
    /\ TwoNearOneFar(1, 2, 3)
    /\ app_vectors[1] # app_vectors[2]
    /\ "final_groups" \in printed

\* C9, the failing write: the error is printed and nothing is raised, the
\* cache keeps the new entry, and main goes on at line 256 with the same
\* application; a later lookup of a package whose write failed is a hit.
C9_Step ==
    /\ save_failed' # save_failed =>
          /\ pc \in {"save_open", "save_write"}
          /\ save_failed' = save_failed \cup {app.package}
          /\ "save_error" \in printed'
          /\ pc' = "check"
          /\ error' = "none" /\ exit_status' = -1
          /\ locals' = locals
          /\ DictHas(app_tags_cache'.items, app.package)
          /\ DictGet(app_tags_cache'.items, app.package) = tags'
    /\ InLoop /\ Stepped /\ app.package \in save_failed =>
          /\ pc' = "check"
          /\ tags' = DictGet(app_tags_cache.items, app.package)
          /\ classified' = classified

\* C9, afterwards: the entry stays in the cache, the package is classified
\* once, no exception has left main, and the run goes on: the application
\* whose write failed is checked and embedded or skipped, and the position
\* moves to the next one.
C9_AfterFailure ==
    \A p \in save_failed :
        /\ DictHas(app_tags_cache.items, p)
        /\ Count(classified, p) = 1
        /\ "save_error" \in printed
        /\ error = "none"
        /\ pc \in {"check", "embed", "lookup", "save_open", "save_write",
                   "exited", "killed"}

\* C9: a failed write of the cache file is logged and not propagated, the
\* in-memory entry stays and serves later lookups, and the run continues.
C9_WriteFailureIsNotFatal == [][C9_Step]_vars /\ []C9_AfterFailure

\* C9 witness: the write for the first application failed, the application
\* was embedded all the same, and a later application of the same package
\* was served from the cache; the groups are printed.
C9_Witness ==
    /\ LoopDone
    /\ "final_groups" \in printed
    /\ Len(apps_to_process) = 3
    /\ apps_to_process[1].package = apps_to_process[3].package
    /\ apps_to_process[1].package \in save_failed
    /\ Len(classified) = 2
    /\ embedded = <<1, 2, 3>>

\* The entries load_cache gives a run that starts with the file f.
EntriesOf(f) ==
    IF load_cache(f).kind = "dict" THEN DictItems(load_cache(f).items) ELSE {}

\* C2 as claimed: after an interrupted run, load_cache returns every entry
\* the file held when that run started and every entry whose write-through
\* completed.  The code truncates the file before it writes it, so a run
\* killed inside save_cache leaves an empty or cut-off file.
C2_InterruptedRunKeepsEntries ==
    pc = "killed" =>
        /\ EntriesOf(file_at_start) \subseteq EntriesOf(cache_file)
        /\ written \subseteq EntriesOf(cache_file)

\* C7 as claimed: load_cache returns a mapping for every content of the
\* file, empty for an absent or empty file, empty with a warning for a
\* corrupted one, and no error of it reaches main.  The code lets
\* UnicodeDecodeError through and returns a JSON array as a list.
JustLoaded == pc = "lookup" /\ app_idx = 1

C7_LoadCacheNeverFails ==
    /\ error # "UnicodeDecodeError"
    /\ JustLoaded => app_tags_cache.kind = "dict"
    /\ JustLoaded /\ file_at_start.kind \in {"absent", "empty"} =>
          app_tags_cache.items = <<>> /\ "cache_warning" \notin printed
    /\ JustLoaded
       /\ file_at_start.kind \in {"unreadable", "partial", "garbage", "badutf8"}
       => app_tags_cache.items = <<>> /\ "cache_warning" \in printed

\* C8 as claimed: after a successful save_cache the saved entries are in the
\* in-memory cache, and a later process loads the mapping of the last
\* successful save.  A later save_cache that fails after open() has
\* truncated the file leaves no mapping to load (see C2).
C8_RoundTrip ==
    last_saved.any =>
        /\ \A e \in written :
              /\ DictHas(app_tags_cache.items, e[1])
              /\ DictGet(app_tags_cache.items, e[1]) = e[2]
        /\ pc = "exited" =>
              /\ load_cache(cache_file).kind = "dict"
              /\ DictItems(load_cache(cache_file).items)
                    = DictItems(last_saved.items)

\* The messages of the fatal conditions.
FatalMessages ==
    {"no_api_key", "db_missing", "db_error", "no_apps", "no_vectors"}

\* C10 as claimed: a fatal condition ends the run with a message and a
\* non-zero exit status, and only a run that prints the groups exits with
\* zero.  main() returns on every fatal condition, and the exit status is 0.
C10_FatalExitsNonZero ==
    pc \in {"exited", "raised"} =>
        /\ printed \cap FatalMessages # {} => exit_status # 0
        /\ exit_status = 0 <=> "final_groups" \in printed
        /\ "final_groups" \notin printed => printed \cap FatalMessages # {}
                                            \/ "traceback" \in printed

\* t without its leading and trailing whitespace is r (r is not empty).
IsStripped(r, t) ==
    \E i \in 1..Len(t) : \E j \in i..Len(t) :
        /\ r = SubSeq(t, i, j)
        /\ t[i] \notin Whitespace
        /\ t[j] \notin Whitespace
        /\ \A k \in (1..(i - 1)) \cup ((j + 1)..Len(t)) : t[k] \in Whitespace

Blank(t) == \A k \in 1..Len(t) : t[k] \in Whitespace

C11_Returned ==
    (unit.fn = "get_app_description" /\ unit.state # "call")
    => /\ unit.state = "returned"
       /\ unit.ret # <<>>
       /\ IF unit.arg.raises \/ ~unit.arg.has_text \/ Blank(unit.arg.text)
          THEN unit.ret = Sentinel
          ELSE IsStripped(unit.ret, unit.arg.text)

C11_Step ==
    classified' # classified
    => /\ tags' # <<>>
       /\ app_tags_cache.kind = "dict"
          => pc' = "save_open" /\ error' = "none" /\ exit_status' = -1

\* C11: get_app_description never lets a failure out: whatever the remote
\* call does, it returns a tag string that is not empty, the sentinel when
\* the call raised or answered nothing, an empty or a whitespace-only text,
\* the stripped text otherwise; and the step of main() that classified goes
\* on to the next stage for that application (the write of the cache).
C11_ClassifierNeverFails == [](C11_Returned) /\ [][C11_Step]_vars

\* The first classification failed and gave the sentinel; the run went on,
\* classified and embedded the second application and ended with a result.
C11_Witness ==
    /\ Len(classified) = 2
    /\ got_tags[1] = Sentinel
    /\ "llm_error" \in printed
    /\ embedded = <<2>>
    /\ pc = "exited"
    /\ final_groups # <<>>

\* out is rows without the rows Included rejects, in the order of rows,
\* each with its title and the package Package gives for its intent.
ExtractedAs(rows, out, Included(_), Package(_)) ==
    LET kept == {n \in 1..Len(rows) : Included(rows[n])}
        nth(k) == CHOOSE n \in kept :
                      Cardinality({m \in kept : m <= n}) = k
    IN  /\ Len(out) = Len(rows) - Cardinality((1..Len(rows)) \ kept)
        /\ \A k \in 1..Len(out) :
              /\ out[k].name = rows[nth(k)].title
              /\ out[k].package = Package(rows[nth(k)].intent)

\* The text between position n and the next "/" after it.
UpToSlash(s, n) ==
    LET m == CHOOSE k \in (n + 1)..Len(s) :
                 s[k] = "/" /\ \A l \in (n + 1)..(k - 1) : s[l] # "/"
    IN  SubSeq(s, n + 1, m - 1)

\* The intent is not empty and holds component= followed by a "/".
C12_IncludedAsClaimed(row) ==
    /\ ~row.is_null
    /\ row.intent # <<>>
    /\ \E n \in 1..Len(row.intent) : \E m \in (n + 1)..Len(row.intent) :
          row.intent[n] = Component /\ row.intent[m] = "/"

\* The text between the first component= that a "/" follows and that "/".
C12_PackageAsClaimed(s) ==
    UpToSlash(s, CHOOSE n \in 1..Len(s) :
                     /\ s[n] = Component
                     /\ \E m \in (n + 1)..Len(s) : s[m] = "/"
                     /\ \A l \in 1..(n - 1) :
                           ~(s[l] = Component
                             /\ \E m \in (l + 1)..Len(s) : s[m] = "/"))

\* component= with at least one character that is not "/" and then a "/".
WellFormedAt(s, n) ==
    /\ s[n] = Component
    /\ n + 2 <= Len(s)
    /\ s[n + 1] # "/"
    /\ \E m \in (n + 2)..Len(s) : s[m] = "/"

C12_Included(row) ==
    /\ ~row.is_null
    /\ \E n \in 1..Len(row.intent) : WellFormedAt(row.intent, n)

C12_Package(s) ==
    UpToSlash(s, CHOOSE n \in 1..Len(s) :
                     WellFormedAt(s, n)
                     /\ \A l \in 1..(n - 1) : ~WellFormedAt(s, l))

\* main() has the list extract_apps_from_db returned.
Extracted == "extracted" \in printed

\* C12 as claimed: a row is included if and only if its intent is not empty
\* and holds component= followed by a "/", its package is the text between
\* component= and the next "/", the order of the rows is kept and the length
\* is the row count minus the excluded rows.
C12_AsClaimed ==
    /\ (unit.fn = "extract_apps_from_db" /\ unit.state # "call")
       => /\ unit.state = "returned"
          /\ ExtractedAs(unit.arg, unit.ret,
                         C12_IncludedAsClaimed, C12_PackageAsClaimed)
    /\ Extracted
       => ExtractedAs(db.rows, apps_to_process,
                      C12_IncludedAsClaimed, C12_PackageAsClaimed)

\* C12, amended: a row is included if and only if its intent holds
\* component= followed by at least one character other than "/" and then a
\* "/"; its package is the text between the first such component= and the
\* next "/"; the other rows are skipped without an error, the order of the
\* rows is kept and the length is the row count minus the excluded rows.
C12_ExtractsWellFormedRows ==
    /\ (unit.fn = "extract_apps_from_db" /\ unit.state # "call")
       => /\ unit.state = "returned"
          /\ ExtractedAs(unit.arg, unit.ret, C12_Included, C12_Package)
    /\ Extracted
       => ExtractedAs(db.rows, apps_to_process, C12_Included, C12_Package)

\* Of two rows, the first with component=/ and nothing else is skipped and
\* the second, component=a/, is extracted with the package a.
C12_Witness ==
    /\ unit.fn = "extract_apps_from_db"
    /\ unit.state = "returned"
    /\ unit.arg = <<Row("A", <<Component, "/">>, FALSE),
                    Row("B", <<Component, "a", "/">>, FALSE)>>
    /\ unit.ret = <<[name |-> "B", package |-> <<"a">>]>>

C14_Aligned ==
    /\ Len(processed_apps) = Len(app_vectors)
    /\ \A i \in 1..Len(processed_apps) :
          /\ processed_apps[i].name = apps_to_process[processed_apps[i].pos].name
          /\ \E k \in 1..Len(embed_log) :
                /\ embed_log[k].pos = processed_apps[i].pos
                /\ embed_log[k].text = processed_apps[i].tags
                /\ ~embed_log[k].answer.raises
                /\ embed_log[k].answer.vector = app_vectors[i]
    /\ \A i, j \in 1..Len(processed_apps) :
          i < j => processed_apps[i].pos < processed_apps[j].pos
    /\ "final_groups" \in printed
       => /\ clusters = fit_predict(app_vectors)
          /\ \A i \in 1..Len(processed_apps) :
                /\ DictHas(final_groups, group_name(clusters[i]))
                /\ processed_apps[i].name
                      \in Range(DictGet(final_groups, group_name(clusters[i])))

\* A call of the embedder that gives no vector changes neither list and
\* goes on with the next application; one that gives a vector adds one
\* entry to each list.
C14_Step ==
    embed_log' # embed_log
    => LET answer == embed_log'[Len(embed_log')].answer
       IN  IF answer.raises \/ answer.vector = <<>>
           THEN /\ survivors' = survivors
                /\ app_idx' = app_idx + 1
                /\ pc' = "lookup"
                /\ error' = "none" /\ exit_status' = -1
           ELSE /\ Len(processed_apps') = Len(processed_apps) + 1
                /\ Len(app_vectors') = Len(app_vectors) + 1

\* C14: an application for which the embedder returns no vector is skipped
\* and the loop goes on; the survivors and the vectors always have the same
\* length, the i-th vector is the embedding of the i-th survivor's tag, and
\* the name of the i-th survivor is in the group of the i-th label.
C14_VectorsFollowSurvivors == [](C14_Aligned) /\ [][C14_Step]_vars

\* The embedder gave no vector for the first of three applications; the
\* other two survived and were grouped.
C14_Witness ==
    /\ Len(apps_to_process) = 3
    /\ embedded = <<1, 2, 3>>
    /\ Len(processed_apps) = 2
    /\ processed_apps[1].pos = 2
    /\ "final_groups" \in printed

\* The places in final_groups of the groups that hold the name of the i-th
\* survivor.
GroupsOf(i) ==
    {n \in 1..Len(final_groups) :
        processed_apps[i].name \in Range(final_groups[n][2])}

\* The position in the extraction of the survivor named x.
PosOfName(x) ==
    processed_apps[CHOOSE i \in 1..Len(processed_apps) :
                       processed_apps[i].name = x].pos

\* C15: the printed groups are a partition of the survivors: every survivor's
\* name is in exactly one group, two survivors are in the same group if and
\* only if they have the same label, the survivors labelled -1 are in the
\* one outlier group, no group is empty, and the names of a group are in
\* extraction order.
C15_GroupsPartitionSurvivors ==
    "final_groups" \in printed
    => /\ Len(clusters) = Len(processed_apps)
       /\ \A n, m \in 1..Len(final_groups) :
             final_groups[n][1] = final_groups[m][1] => n = m
       /\ \A n \in 1..Len(final_groups) : final_groups[n][2] # <<>>
       /\ Len(GroupedNames(final_groups)) = Len(processed_apps)
       /\ \A i \in 1..Len(processed_apps) : Cardinality(GroupsOf(i)) = 1
       /\ \A i, j \in 1..Len(processed_apps) :
             (GroupsOf(i) = GroupsOf(j)) <=> (clusters[i] = clusters[j])
       /\ \A i \in 1..Len(processed_apps) :
             (clusters[i] = -1)
             <=> \A n \in GroupsOf(i) : final_groups[n][1] = OutlierGroup
       /\ \A n \in 1..Len(final_groups) :
             \A a, b \in 1..Len(final_groups[n][2]) :
                a < b => PosOfName(final_groups[n][2][a])
                            < PosOfName(final_groups[n][2][b])

\* Three survivors: the first and the third share a cluster, the second is
\* an outlier between them in the extraction.
C15_Witness ==
    /\ "final_groups" \in printed
    /\ Len(processed_apps) = 3
    /\ clusters = <<0, -1, 0>>
    /\ final_groups =
          << <<NumberedGroup(0),
               <<processed_apps[1].name, processed_apps[3].name>> >>,
             <<OutlierGroup, <<processed_apps[2].name>> >> >>

\* What main() prints when it stops before the loop.
EarlyStops == {"no_api_key", "db_missing", "db_error", "no_apps"}

\* C16: a run that stops before the loop (no credential, no data source, a
\* failing query, no application) has ended without a call of the
\* classifier or the embedder and without loading the cache, and the cache
\* file is as it was; without the credential the data source has not been
\* opened either.
C16_EarlyStopTouchesNothing ==
    /\ printed \cap EarlyStops # {}
       => /\ pc = "exited"
          /\ classified = <<>>
          /\ embedded = <<>>
          /\ "load_cache" \notin called
          /\ app_tags_cache = [kind |-> "dict", items |-> <<>>]
          /\ cache_file = file_at_start
          /\ written = {}
    /\ "no_api_key" \in printed
       => /\ called = {}
          /\ "extracted" \notin printed
          /\ apps_to_process = <<>>
    /\ "db_missing" \in printed => "sqlite3.connect" \notin called

\* Without the credential main() has returned although the data source
\* holds applications and a cache file exists.
C16_Witness ==
    /\ "no_api_key" \in printed
    /\ pc = "exited"
    /\ extract_rows(db.rows) # <<>>
    /\ cache_file.kind = "object"
    /\ cache_file.items # <<>>

\* Both runs have ended.
BothDone == pc \in {"exited", "raised"} /\ other.pc \in {"done", "raised"}

\* C17: nothing locks the cache file: a run that is about to load, open or
\* write it can do so wherever the other run stands, also between the other
\* run's load and its last write.  (An update is then lost: C17_Witness.)
C17_NoFileLock ==
    /\ pc = "load" => ENABLED LoadCache
    /\ pc = "save_open" => ENABLED SaveOpen
    /\ pc = "save_write" => ENABLED SaveWrite
    /\ other.pc = "load" => ENABLED OtherLoad
    /\ other.pc = "save_open" => ENABLED OtherSaveOpen
    /\ other.pc = "save_write" => ENABLED OtherSaveWrite

\* The lost update: both runs have ended, the first classified a package
\* and its save_cache succeeded, and the file, a JSON object, has no entry
\* for that package.
C17_Witness ==
    /\ BothDone
    /\ pc = "exited"
    /\ other.pc = "done"
    /\ cache_file.kind = "object"
    /\ \E e \in written :
          /\ e[1] \in Range(classified)
          /\ "cache_saved" \in printed
          /\ e[1] \notin DictKeys(cache_file.items)

\* The mapping load_cache gives a run that starts with the file f.
MappingOf(f) ==
    IF load_cache(f).kind = "dict" THEN load_cache(f).items ELSE <<>>

\* save_cache has just succeeded.
Saved == last_saved' # last_saved \/ written' # written

\* The mapping a load of the file would give is the in-memory mapping.
C18_Step ==
    Saved
    => /\ pc = "save_write" /\ pc' = "check"
       /\ app_tags_cache' = app_tags_cache
       /\ load_cache(cache_file').kind = "dict"
       /\ load_cache(cache_file').items = app_tags_cache'.items
       /\ \A p \in save_failed :
             /\ DictHas(MappingOf(cache_file'), p)
             /\ DictGet(MappingOf(cache_file'), p)
                   = DictGet(app_tags_cache.items, p)

\* The write of the package classified last has succeeded.
LastWriteSucceeded ==
    /\ classified # <<>>
    /\ \E e \in written : e[1] = classified[Len(classified)]

C18_NothingMissing ==
    LastWriteSucceeded
    => \A n \in 1..Len(classified) :
          /\ DictHas(MappingOf(cache_file), classified[n])
          /\ DictGet(MappingOf(cache_file), classified[n])
                = DictGet(app_tags_cache.items, classified[n])

\* C18: right after every successful save_cache the file holds the whole
\* in-memory mapping, so an entry whose own write failed is in the file
\* after the next successful write, and when the last write attempt of the
\* run succeeded every classification of the run is in the file.
C18_SaveWritesWholeCache == [](C18_NothingMissing) /\ [][C18_Step]_vars

\* The write after the first classification failed, the write after the
\* second succeeded, and the file has both entries.
C18_Witness ==
    /\ Len(classified) = 2
    /\ classified[1] \in save_failed
    /\ classified[2] \notin save_failed
    /\ LastWriteSucceeded
    /\ pc = "exited"
    /\ DictKeys(MappingOf(cache_file)) = {classified[1], classified[2]}

\* Every key of the mapping d is a key of e with the same value.
Within(d, e) ==
    \A k \in DictKeys(d) : DictHas(e, k) /\ DictGet(e, k) = DictGet(d, k)

C19_Step ==
    /\ (app_tags_cache.kind = "dict" /\ app_tags_cache'.kind = "dict")
       => Within(app_tags_cache.items, app_tags_cache'.items)
    /\ app_tags_cache.kind # "dict" => app_tags_cache' = app_tags_cache
    /\ Saved => Within(MappingOf(file_at_start), MappingOf(cache_file'))

C19_StartupEntriesStay ==
    ("load_cache" \in called /\ app_tags_cache.kind = "dict")
    => Within(MappingOf(file_at_start), app_tags_cache.items)

\* C19: within a run the in-memory cache only grows: no step removes an
\* entry or changes the value of a key, so the entries loaded at startup
\* stay in memory with their values and are in the file after every
\* successful write.
C19_CacheOnlyGrows == [](C19_StartupEntriesStay) /\ [][C19_Step]_vars

\* The run started with an entry for a in the file, classified b and wrote
\* the cache: memory and file hold a with its value and b.
C19_Witness ==
    /\ file_at_start = File("object", <<<<PackageA, TagA>>>>)
    /\ classified = <<PackageB>>
    /\ \E e \in written : e[1] = PackageB
    /\ DictKeys(app_tags_cache.items) = {PackageA, PackageB}
    /\ DictGet(app_tags_cache.items, PackageA) = TagA
    /\ DictGet(MappingOf(cache_file), PackageA) = TagA
    /\ DictKeys(MappingOf(cache_file)) = {PackageA, PackageB}

====
